---- MODULE Spec2Model ----
(***************************************************************************)
(* BatchProcessor.py: one run of BatchProcessor.process_files.             *)
(*                                                                         *)
(* The run reads the listed files, builds one request per file with        *)
(* non-empty content, submits them as one batch, polls the batch status    *)
(* and, once the status is "ended", makes one pass over the result stream  *)
(* and writes the text of every "succeeded" result next to its input file. *)
(*                                                                         *)
(* The file system and the batch service are the environment: what a file  *)
(* holds, whether a write fails, which status a poll reports and which     *)
(* results the stream yields are chosen nondeterministically.              *)
(***************************************************************************)
EXTENDS Integers, Sequences, FiniteSets, TLC

(***************************************************************************)
(* Bounds of the model.                                                    *)
(***************************************************************************)
\* longest files_to_process list
MaxFiles == 2
\* longest result stream the service yields
MaxResults == 2
\* most status polls of one run; the last one allowed does not report a
\* status that makes the client poll again
MaxPolls == 2

(***************************************************************************)
(* Inputs and environment values.                                          *)
(***************************************************************************)
\* A filename, split the way pathlib splits it into stem and suffix.
FileNames == {[stem |-> "a", suffix |-> ".md"], [stem |-> "b", suffix |-> ".txt"]}

\* open() raises FileNotFoundError / another exception for these two.
NotFound == "<FileNotFoundError>"
Unreadable == "<OSError>"

\* processing_status values of a batch, per the Message Batches API.
InProgress == "in_progress"
Canceling == "canceling"
Ended == "ended"

\* result.result.type values, per the Message Batches API.
ResultTypes == {"succeeded", "errored", "canceled", "expired"}
\* texts a succeeded result may carry
Texts == {"Hi", "Yo"}
NoText == "<no message>"

\* asyncio.sleep(retry_interval)
retry_interval == 5

VARIABLES
    files_to_process,       \* argument of process_files: a list of filenames
    disk,                   \* the listed input files under base_dir
    optimized,              \* the files written by write_optimized_content: path -> text
    pc,                     \* position of the run
    requests,               \* the list built by prepare_batch_requests
    custom_id_to_filename,  \* self.custom_id_to_filename
    processed_files,        \* the set processed_files of process_batch_results
    pbar_n,                 \* the count of the tqdm progress bar (pbar.update(1))
    results,                \* the results the stream has yielded so far
    trace,                  \* the service calls, sleeps and writes made, in order
    errlog,                 \* the logging.error messages, in order
    pbr_exit,               \* how process_batch_results ended
    pf_exit                 \* how process_files ended

vars == <<files_to_process, disk, optimized, pc, requests, custom_id_to_filename,
          processed_files, pbar_n, results, trace, errlog, pbr_exit, pf_exit>>

(***************************************************************************)
(* Helpers.                                                                *)
(***************************************************************************)
SeqsUpTo(S, n) == UNION {[1..k -> S] : k \in 0..n}

Range(s) == {s[i] : i \in DOMAIN s}

Name(fp) == fp.stem \o fp.suffix

\* What the path of a listed file holds when the run starts: nothing, something
\* that cannot be read, an empty file, or a text (one text per file, so that a
\* request tells which file it was built from).
FileText(fp) == "text of " \o Name(fp)
DiskStates(fp) == {NotFound, Unreadable, "", FileText(fp)}

\* file_path.with_name(f"{file_path.stem}-OPTIMIZED{file_path.suffix}")
OptimizedPath(fp) == fp.stem \o "-OPTIMIZED" \o fp.suffix

\* variant of CustomId: the ids count from 0, as enumerate does by default
CustomIdFromZero(idx) == "req_" \o ToString(idx - 1)

\* f"req_{idx}"
CustomId(idx) == "req_" \o ToString(idx)

\* the user message of a request
Prompt(content) == "Modify the given text for voice synthesis:\n\n" \o content

\* variant of read_file_content: only FileNotFoundError is caught
read_file_content_uncaught(d, fp) ==
    IF d[fp] = NotFound THEN "" ELSE d[fp]

\* read_file_content: the text of the file, "" when open() or read() raises
read_file_content(d, fp) ==
    IF d[fp] \in {NotFound, Unreadable} THEN "" ELSE d[fp]

\* the logging.error call of read_file_content, if any
read_file_errors(d, fp) ==
    IF d[fp] = NotFound THEN <<"File not found: " \o Name(fp)>>
    ELSE IF d[fp] = Unreadable THEN <<"Error reading " \o Name(fp)>>
    ELSE <<>>

\* prepare_batch_requests, the loop from position idx on, after the state
\* acc = [requests, map, errors] the earlier iterations left
RECURSIVE PrepareFrom(_, _, _, _)
PrepareFrom(files, d, idx, acc) ==
    IF idx > Len(files) THEN acc
    ELSE LET filename == files[idx]
             content == read_file_content(d, filename)
             errs == acc.errors \o read_file_errors(d, filename)
         IN IF content # ""
            THEN PrepareFrom(files, d, idx + 1,
                     [requests |-> Append(acc.requests,
                                      [custom_id |-> CustomId(idx),
                                       text |-> Prompt(content)]),
                      map |-> (CustomId(idx) :> filename) @@ acc.map,
                      errors |-> errs])
            ELSE PrepareFrom(files, d, idx + 1, [acc EXCEPT !.errors = errs])

\* variant of prepare_batch_requests: the map is emptied in every iteration of
\* the loop, so that it keeps the last request only
prepare_resetting_map(files, d) ==
    LET p == PrepareFrom(files, d, 1, [requests |-> <<>>, map |-> <<>>, errors |-> <<>>])
    IN IF p.requests = <<>> THEN p
       ELSE LET last == p.requests[Len(p.requests)].custom_id
            IN [p EXCEPT !.map = (last :> p.map[last])]

\* variant of prepare_batch_requests: the filename is recorded before the
\* test of line 61, so that excluded files have an entry in the map too
prepare_mapping_every_file(files, d) ==
    LET p == PrepareFrom(files, d, 1, [requests |-> <<>>, map |-> <<>>, errors |-> <<>>])
    IN [p EXCEPT !.map = [id \in {CustomId(i) : i \in DOMAIN files} |->
                             files[CHOOSE i \in DOMAIN files : CustomId(i) = id]]]

prepare_batch_requests(files, d) ==
    PrepareFrom(files, d, 1, [requests |-> <<>>, map |-> <<>>, errors |-> <<>>])

\* variant of no_requests: the check of line 130 is missing
never_no_requests(reqs) == FALSE

\* line 130: if not requests
no_requests(reqs) == reqs = <<>>

(***************************************************************************)
(* Initial state: before process_files is called.                          *)
(***************************************************************************)
Init ==
    /\ files_to_process \in SeqsUpTo(FileNames, MaxFiles)
    /\ disk \in {d \in [Range(files_to_process) ->
                            UNION {DiskStates(fp) : fp \in FileNames}] :
                     \A fp \in DOMAIN d : d[fp] \in DiskStates(fp)}
    /\ optimized = <<>>
    /\ pc = "start"
    /\ requests = <<>>
    /\ custom_id_to_filename = <<>>
    /\ processed_files = {}
    /\ pbar_n = 0
    /\ results = <<>>
    /\ trace = <<>>
    /\ errlog = <<>>
    /\ pbr_exit = "not called"
    /\ pf_exit = "running"

\* process_files, lines 129-132: build the requests; none: log and return
ProcessFiles ==
    /\ pc = "start"
    /\ LET p == prepare_batch_requests(files_to_process, disk)
       IN /\ requests' = p.requests
          /\ custom_id_to_filename' = p.map
          /\ IF no_requests(p.requests)
             THEN /\ errlog' = errlog \o p.errors \o <<"No valid files to process">>
                  /\ pc' = "done"
                  /\ pf_exit' = "returned"
             ELSE /\ errlog' = errlog \o p.errors
                  /\ pc' = "create"
                  /\ pf_exit' = pf_exit
    /\ UNCHANGED <<files_to_process, disk, optimized, processed_files, pbar_n,
                   results, trace, pbr_exit>>

(***************************************************************************)
(* The batch service and the output files.                                 *)
(***************************************************************************)
\* what the try block of write_optimized_content can do: write the file, or
\* raise at open(optimized_path, 'w') and leave the directory as it was
WriteOutcomes == {"ok", "failed"}

\* the custom ids the service may name in a result: one per list position
ResultIds == {CustomId(i) : i \in 1..Len(files_to_process)}

\* the results the stream may yield
ResultSet ==
    [custom_id : ResultIds, type : {"succeeded"}, text : Texts]
        \cup [custom_id : ResultIds, type : ResultTypes \ {"succeeded"}, text : {NoText}]

\* the events of trace
CallEvent(op, outcome) == [op |-> op, outcome |-> outcome]
SleepEvent(seconds) == [op |-> "sleep", seconds |-> seconds]
WriteEvent(custom_id, path, outcome) ==
    [op |-> "write", custom_id |-> custom_id, path |-> path, outcome |-> outcome]

Polls == SelectSeq(trace, LAMBDA e : e.op = "retrieve")

\* variant of write_optimized_content: the text goes to the input file's path
write_over_input(fs, fp, content, w) ==
    IF w = "ok" THEN (Name(fp) :> content) @@ fs ELSE fs

\* write_optimized_content, lines 46-52: the files after the call; an existing
\* file is overwritten
write_optimized_content(fs, fp, content, w) ==
    IF w = "ok" THEN (OptimizedPath(fp) :> content) @@ fs ELSE fs

\* the logging.error call of write_optimized_content, if any
write_errors(fp, w) ==
    IF w = "ok" THEN <<>> ELSE <<"Error writing to " \o OptimizedPath(fp)>>

\* line 89: the total of the progress bar
pbar_total == Len(files_to_process)

\* line 93: the condition of the poll loop
while_condition(processed, files) == Cardinality(processed) < Len(files)

\* variant of already_processed: the check of line 104 is missing
never_processed(r, processed) == FALSE

\* line 104: if result.custom_id in processed_files
already_processed(r, processed) == r.custom_id \in processed

\* variant of handle_succeeded: write_optimized_content lets the error of a
\* failed write escape
handle_succeeded_write_raises(r, w, map, st) ==
    IF r.custom_id \notin DOMAIN map
    THEN [st EXCEPT !.raised = "KeyError: " \o r.custom_id]
    ELSE LET fp == map[r.custom_id]
         IN IF w # "ok"
            THEN [st EXCEPT !.raised = "Error writing to " \o OptimizedPath(fp),
                            !.writes = Append(st.writes,
                                WriteEvent(r.custom_id, OptimizedPath(fp), w))]
            ELSE [raised |-> "",
                  optimized |-> write_optimized_content(st.optimized, fp, r.text, w),
                  processed |-> st.processed \cup {r.custom_id},
                  pbar |-> st.pbar + 1,
                  errors |-> st.errors,
                  writes |-> Append(st.writes,
                                WriteEvent(r.custom_id, OptimizedPath(fp), w))]

\* lines 108-112: the "succeeded" branch. st = [raised, optimized, processed,
\* pbar, errors, writes]; raised names the exception that leaves the loop.
handle_succeeded(r, w, map, st) ==
    IF r.custom_id \notin DOMAIN map
    THEN [st EXCEPT !.raised = "KeyError: " \o r.custom_id]
    ELSE LET fp == map[r.custom_id]
         IN [raised |-> "",
             optimized |-> write_optimized_content(st.optimized, fp, r.text, w),
             processed |-> st.processed \cup {r.custom_id},
             pbar |-> st.pbar + 1,
             errors |-> st.errors \o write_errors(fp, w),
             writes |-> Append(st.writes,
                           WriteEvent(r.custom_id, OptimizedPath(fp), w))]

\* variant of handle_failed: a failed request raises
handle_failed_raise(r, st) ==
    [st EXCEPT !.raised = "Request " \o r.custom_id \o " failed."]

\* variant of handle_failed: pbar.update(1) of line 116 is missing
handle_failed_no_update(r, st) ==
    [st EXCEPT !.processed = st.processed \cup {r.custom_id},
               !.errors = Append(st.errors, "Request " \o r.custom_id \o " failed.")]

\* lines 114-116: the "errored" / "expired" branch
handle_failed(r, st) ==
    [st EXCEPT !.processed = st.processed \cup {r.custom_id},
               !.pbar = st.pbar + 1,
               !.errors = Append(st.errors, "Request " \o r.custom_id \o " failed.")]

\* variant of handle_result: line 113 is a plain else, every result that did
\* not succeed is logged and marked
handle_result_else_failed(r, w, map, st) ==
    IF already_processed(r, st.processed) THEN st
    ELSE IF r.type = "succeeded" THEN handle_succeeded(r, w, map, st)
    ELSE handle_failed(r, st)

\* lines 104-116: the body of the loop over the results, for one result r
handle_result(r, w, map, st) ==
    IF already_processed(r, st.processed) THEN st
    ELSE IF r.type = "succeeded" THEN handle_succeeded(r, w, map, st)
    ELSE IF r.type \in {"errored", "expired"} THEN handle_failed(r, st)
    ELSE st

\* variant of process_batch_results_except: the handler does not re-raise
process_batch_results_swallow(e) ==
    [errors |-> <<"Error in batch processing: " \o e>>, exit |-> "returned"]

\* lines 122-124: the handler of process_batch_results logs and re-raises
process_batch_results_except(e) ==
    [errors |-> <<"Error in batch processing: " \o e>>, exit |-> "raised"]

\* lines 137-138: the handler of process_files logs and does not re-raise
process_files_except(e) ==
    [errors |-> <<"Error in batch processing: " \o e>>, exit |-> "returned"]

\* variant of RaiseInBatchResults: the exception is logged and the poll loop
\* starts over
RaiseAndRetry(e, log) ==
    /\ errlog' = Append(log, "Error in batch processing: " \o e)
    /\ pbr_exit' = "raised"
    /\ pf_exit' = pf_exit
    /\ pc' = "retrieve"

\* an exception e raised inside the try block of process_batch_results
RaiseInBatchResults(e, log) ==
    LET inner == process_batch_results_except(e)
        outer == process_files_except(e)
    IN /\ errlog' = log \o inner.errors
                        \o (IF inner.exit = "raised" THEN outer.errors ELSE <<>>)
       /\ pbr_exit' = inner.exit
       /\ pf_exit' = IF inner.exit = "raised" THEN outer.exit ELSE "returned"
       /\ pc' = "done"

\* lines 118-120 and 135: the loop is left, pbar.close(), both functions return
ReturnFromBatchResults ==
    /\ pbr_exit' = "returned"
    /\ pf_exit' = "returned"
    /\ pc' = "done"

\* line 93: back at the top of the poll loop
LoopTop ==
    IF while_condition(processed_files, files_to_process)
    THEN pc' = "retrieve" /\ pbr_exit' = "running" /\ pf_exit' = pf_exit
    ELSE ReturnFromBatchResults

(***************************************************************************)
(* The steps of the run after the requests are built.                      *)
(***************************************************************************)
\* line 134: batches.create succeeds; line 135 enters process_batch_results
CreateOk ==
    /\ pc = "create"
    /\ trace' = Append(trace, CallEvent("create", "ok"))
    /\ LoopTop
    /\ UNCHANGED <<files_to_process, disk, optimized, requests, custom_id_to_filename,
                   processed_files, pbar_n, results, errlog>>

\* line 134: batches.create raises
CreateError ==
    /\ pc = "create"
    /\ trace' = Append(trace, CallEvent("create", "error"))
    /\ LET outer == process_files_except("create failed")
       IN /\ errlog' = errlog \o outer.errors
          /\ pf_exit' = outer.exit
    /\ pc' = "done"
    /\ UNCHANGED <<files_to_process, disk, optimized, requests, custom_id_to_filename,
                   processed_files, pbar_n, results, pbr_exit>>

\* variant of RetrieveInProgress: the loop starts over without sleeping
RetrieveInProgressNoSleep ==
    /\ pc = "retrieve"
    /\ Len(Polls) + 1 < MaxPolls
    /\ trace' = Append(trace, CallEvent("retrieve", InProgress))
    /\ LoopTop
    /\ UNCHANGED <<files_to_process, disk, optimized, requests, custom_id_to_filename,
                   processed_files, pbar_n, results, errlog>>

\* lines 95-100: the poll reports "in_progress"
RetrieveInProgress ==
    /\ pc = "retrieve"
    /\ Len(Polls) + 1 < MaxPolls
    /\ trace' = Append(trace, CallEvent("retrieve", InProgress))
    /\ pc' = "sleep"
    /\ UNCHANGED <<files_to_process, disk, optimized, requests, custom_id_to_filename,
                   processed_files, pbar_n, results, errlog, pbr_exit, pf_exit>>

\* line 99: asyncio.sleep(retry_interval), then continue
Sleep ==
    /\ pc = "sleep"
    /\ trace' = Append(trace, SleepEvent(retry_interval))
    /\ LoopTop
    /\ UNCHANGED <<files_to_process, disk, optimized, requests, custom_id_to_filename,
                   processed_files, pbar_n, results, errlog>>

\* lines 95-102: the poll reports a status that is neither "in_progress" nor
\* "ended": neither if matches and the loop starts over
RetrieveOther ==
    /\ pc = "retrieve"
    /\ Len(Polls) + 1 < MaxPolls
    /\ trace' = Append(trace, CallEvent("retrieve", Canceling))
    /\ LoopTop
    /\ UNCHANGED <<files_to_process, disk, optimized, requests, custom_id_to_filename,
                   processed_files, pbar_n, results, errlog>>

\* lines 95-102: the poll reports "ended"
RetrieveEnded ==
    /\ pc = "retrieve"
    /\ Len(Polls) < MaxPolls
    /\ trace' = Append(trace, CallEvent("retrieve", Ended))
    /\ pc' = "results"
    /\ UNCHANGED <<files_to_process, disk, optimized, requests, custom_id_to_filename,
                   processed_files, pbar_n, results, errlog, pbr_exit, pf_exit>>

\* line 95: batches.retrieve raises
RetrieveError ==
    /\ pc = "retrieve"
    /\ Len(Polls) < MaxPolls
    /\ trace' = Append(trace, CallEvent("retrieve", "error"))
    /\ RaiseInBatchResults("retrieve failed", errlog)
    /\ UNCHANGED <<files_to_process, disk, optimized, requests, custom_id_to_filename,
                   processed_files, pbar_n, results>>

\* line 103: batches.results returns the stream
FetchResults ==
    /\ pc = "results"
    /\ trace' = Append(trace, CallEvent("results", "ok"))
    /\ pc' = "iter"
    /\ UNCHANGED <<files_to_process, disk, optimized, requests, custom_id_to_filename,
                   processed_files, pbar_n, results, errlog, pbr_exit, pf_exit>>

\* line 103: batches.results raises
FetchError ==
    /\ pc = "results"
    /\ trace' = Append(trace, CallEvent("results", "error"))
    /\ RaiseInBatchResults("results failed", errlog)
    /\ UNCHANGED <<files_to_process, disk, optimized, requests, custom_id_to_filename,
                   processed_files, pbar_n, results>>

\* lines 103-116: the stream yields one more result and the loop body handles it
NextResult ==
    /\ pc = "iter"
    /\ Len(results) < MaxResults
    /\ \E r \in ResultSet, w \in WriteOutcomes :
         LET st == handle_result(r, w, custom_id_to_filename,
                       [raised |-> "", optimized |-> optimized,
                        processed |-> processed_files, pbar |-> pbar_n,
                        errors |-> <<>>, writes |-> <<>>])
         IN /\ results' = Append(results, r)
            /\ optimized' = st.optimized
            /\ processed_files' = st.processed
            /\ pbar_n' = st.pbar
            /\ trace' = trace \o st.writes
            /\ IF st.raised = ""
               THEN /\ errlog' = errlog \o st.errors
                    /\ UNCHANGED <<pc, pbr_exit, pf_exit>>
               ELSE RaiseInBatchResults(st.raised, errlog \o st.errors)
    /\ UNCHANGED <<files_to_process, disk, requests, custom_id_to_filename>>

\* variant of EndOfResults: no break after the pass, the condition of the
\* poll loop is evaluated again
EndOfResultsRecheck ==
    /\ pc = "iter"
    /\ LoopTop
    /\ UNCHANGED <<files_to_process, disk, optimized, requests, custom_id_to_filename,
                   processed_files, pbar_n, results, trace, errlog>>

\* lines 118-120: the stream is exhausted; break, pbar.close(), return
EndOfResults ==
    /\ pc = "iter"
    /\ ReturnFromBatchResults
    /\ UNCHANGED <<files_to_process, disk, optimized, requests, custom_id_to_filename,
                   processed_files, pbar_n, results, trace, errlog>>

Next ==
    \/ ProcessFiles
    \/ CreateOk
    \/ CreateError
    \/ RetrieveInProgress
    \/ Sleep
    \/ RetrieveOther
    \/ RetrieveEnded
    \/ RetrieveError
    \/ FetchResults
    \/ FetchError
    \/ NextResult
    \/ EndOfResults

Spec == Init /\ [][Next]_vars

(***************************************************************************)
(* Notions the properties share.                                           *)
(***************************************************************************)
\* the custom ids issued by prepare_batch_requests
Issued == DOMAIN custom_id_to_filename

Last(s) == s[Len(s)]

IsCall(e, op, outcome) == e.op = op /\ e.outcome = outcome

EndedSeen == \E i \in DOMAIN trace : IsCall(trace[i], "retrieve", Ended)

Fetched == \E i \in DOMAIN trace : IsCall(trace[i], "results", "ok")

\* every poll so far reported "in_progress", except the last, which reported "ended"
InProgressThenEnded ==
    /\ Polls # <<>>
    /\ Last(Polls).outcome = Ended
    /\ \A i \in 1..(Len(Polls) - 1) : Polls[i].outcome = InProgress

\* the calls of write_optimized_content made for a custom id
WritesOf(id) == SelectSeq(trace, LAMBDA e : e.op = "write" /\ e.custom_id = id)

\* the positions of the list whose file has readable, non-empty content
ReadablePositions ==
    {i \in DOMAIN files_to_process :
        disk[files_to_process[i]] \notin {NotFound, Unreadable, ""}}

\* the n-th such position, in list order
NthReadable(n) ==
    CHOOSE i \in ReadablePositions :
        Cardinality({j \in ReadablePositions : j < i}) = n - 1

\* the first result the stream yielded for a custom id
HasResult(id) == \E i \in DOMAIN results : results[i].custom_id = id
FirstResult(id) ==
    results[CHOOSE i \in DOMAIN results :
                /\ results[i].custom_id = id
                /\ \A j \in 1..(i - 1) : results[j].custom_id # id]

(***************************************************************************)
(* C1. Every custom id issued by prepare_batch_requests is marked          *)
(* processed before the run returns, whatever results the stream yields    *)
(* once the batch has ended, a stream that omits issued ids included.      *)
(* The code leaves the poll loop after its one pass over the stream        *)
(* (line 118), so this fails.                                              *)
(***************************************************************************)
C1_AllIssuedProcessedAtReturn ==
    (pc = "done" /\ pbr_exit = "returned") => Issued \subseteq processed_files

C2_Expected ==
    /\ InProgressThenEnded
    /\ Fetched
    /\ \A id \in Issued : HasResult(id) /\ FirstResult(id).type = "succeeded"
    /\ \A i \in DOMAIN results :
          results[i].type = "succeeded" => results[i].custom_id \in Issued
    /\ \A i \in DOMAIN trace : trace[i].op = "write" => trace[i].outcome = "ok"
    /\ \A id1, id2 \in Issued :
          id1 # id2 => custom_id_to_filename[id1] # custom_id_to_filename[id2]

PollsAndSleeps == SelectSeq(trace, LAMBDA e : e.op \in {"retrieve", "sleep"})

\* C3: k "in_progress" polls then "ended" give poll, sleep 5, ..., poll; results
\* and writes come only after the poll that reported "ended"
C3_PollSleepPollThenResults ==
    /\ InProgressThenEnded =>
          LET k == Len(Polls) - 1
              ps == PollsAndSleeps
          IN /\ Len(ps) = 2 * k + 1
             /\ \A i \in 1..k :
                   /\ ps[2 * i - 1] = [op |-> "retrieve", outcome |-> "in_progress"]
                   /\ ps[2 * i] = [op |-> "sleep", seconds |-> 5]
             /\ ps[2 * k + 1] = [op |-> "retrieve", outcome |-> "ended"]
    /\ \A i \in DOMAIN trace :
          trace[i].op \in {"results", "write"} =>
              \E j \in 1..(i - 1) : IsCall(trace[j], "retrieve", Ended)
    /\ (results # <<>> \/ optimized # <<>>) => EndedSeen

\* one "in_progress" poll, then "ended", then a result written
C3_Witness ==
    /\ pc = "done"
    /\ InProgressThenEnded
    /\ Len(Polls) = 2
    /\ optimized # <<>>

(***************************************************************************)
(* C4. prepare_batch_requests builds exactly one request per listed file   *)
(* whose content is readable and non-empty, in list order, each carrying   *)
(* the content of its file; a missing, unreadable or empty file adds no    *)
(* request and raises nothing.                                             *)
(***************************************************************************)
C4_OneRequestPerReadableFile ==
    pc # "start" =>
        /\ Len(requests) = Cardinality(ReadablePositions)
        /\ \A n \in 1..Len(requests) :
              requests[n].text =
                  "Modify the given text for voice synthesis:\n\n"
                      \o disk[files_to_process[NthReadable(n)]]
        /\ pf_exit # "raised"
        /\ (requests # <<>> /\ trace = <<>>) => pc = "create"

\* a list of two files, the first one unreadable: one request, for the second
C4_Witness ==
    /\ pc = "create"
    /\ Len(files_to_process) = 2
    /\ disk[files_to_process[1]] = Unreadable
    /\ Len(requests) = 1

(***************************************************************************)
(* C5, as stated. The n-th request built carries the id req_n.             *)
(***************************************************************************)
C5_NthRequestHasIdN ==
    \A n \in 1..Len(requests) : requests[n].custom_id = "req_" \o ToString(n)

(***************************************************************************)
(* C5, amended. The request built for the file at position i of the list   *)
(* carries the id req_i: the ids are pairwise distinct and increase in     *)
(* list order, and the position of every excluded file is a gap in them.   *)
(***************************************************************************)
C5_RequestIdIsListPosition ==
    /\ \A n \in 1..Len(requests) :
          requests[n].custom_id = "req_" \o ToString(NthReadable(n))
    /\ \A m, n \in 1..Len(requests) :
          m # n => requests[m].custom_id # requests[n].custom_id

\* the only request built is the one of the second listed file
C5_Witness ==
    /\ Len(requests) = 1
    /\ requests[1].custom_id = "req_2"

(***************************************************************************)
(* C6. In the pass over the results, a result with outcome "errored" or    *)
(* "expired" writes no output file, leaves its custom id marked processed  *)
(* and does not stop the pass; a succeeded result that comes later in the  *)
(* stream is still handled: write_optimized_content is called for it and   *)
(* its id is marked processed.                                             *)
(***************************************************************************)
\* a handled outcome: one that marks the custom id processed
Marks(r) == r.type \in {"errored", "expired"} \/
            (r.type = "succeeded" /\ r.custom_id \in Issued)

\* C6, the step that handles an errored or expired result: no file is written,
\* the id is marked processed, the pass goes on
C6_FailedResultStep ==
    (results' # results /\ Last(results').type \in {"errored", "expired"}) =>
        /\ optimized' = optimized
        /\ trace' = trace
        /\ Last(results').custom_id \in processed_files'
        /\ pc' = "iter"
        /\ pbr_exit' = "running"

\* C6, the results after an errored or expired one: a succeeded result that is
\* the first to mark its id is written and marked
C6_LaterResultsHandled ==
    \A i, j \in DOMAIN results :
        ( /\ i < j
          /\ results[i].type \in {"errored", "expired"}
          /\ results[j].type = "succeeded"
          /\ results[j].custom_id \in Issued
          /\ \A k \in 1..(j - 1) :
                results[k].custom_id = results[j].custom_id => ~Marks(results[k]) )
        => /\ Len(WritesOf(results[j].custom_id)) = 1
           /\ results[j].custom_id \in processed_files
           /\ WritesOf(results[j].custom_id)[1].outcome = "ok" =>
                 OptimizedPath(custom_id_to_filename[results[j].custom_id])
                     \in DOMAIN optimized

\* C6: an errored or expired result writes nothing, is marked processed and
\* does not stop the pass over the results
C6_FailedResultDoesNotStopPass ==
    [][C6_FailedResultStep]_vars /\ []C6_LaterResultsHandled

\* an errored result, then a succeeded one whose file is written
C6_Witness ==
    /\ Len(results) = 2
    /\ results[1].type = "errored"
    /\ results[2].type = "succeeded"
    /\ results[1].custom_id # results[2].custom_id
    /\ results[1].custom_id \in processed_files
    /\ results[2].custom_id \in Issued
    /\ DOMAIN optimized = {OptimizedPath(custom_id_to_filename[results[2].custom_id])}

(***************************************************************************)
(* C7. When no request is built (no listed file has readable, non-empty    *)
(* content; the empty list included), process_files logs "No valid files   *)
(* to process" and returns: the service is never called and no file is     *)
(* written.                                                                *)
(***************************************************************************)
C7_NoRequestsNoServiceCall ==
    (pc # "start" /\ requests = <<>>) =>
        /\ pc = "done"
        /\ pf_exit = "returned"
        /\ pbr_exit = "not called"
        /\ errlog # <<>> /\ Last(errlog) = "No valid files to process"
        /\ trace = <<>>
        /\ results = <<>>
        /\ optimized = <<>>

\* two files listed, none of them usable
C7_Witness ==
    /\ pc = "done"
    /\ Len(files_to_process) = 2
    /\ requests = <<>>

(***************************************************************************)
(* C8. For any result stream, one that names a custom id several times     *)
(* included, write_optimized_content is called at most once per custom id, *)
(* the progress count grows by one exactly when a custom id enters the     *)
(* processed set, and an id that is in the set stays in it (so every id    *)
(* enters it at most once).                                                *)
(***************************************************************************)
\* C8, every step: the processed set only grows, by at most one id, the progress
\* count grows with it, and a write is made only for an id that enters the set
C8_ProcessedStep ==
    /\ processed_files \subseteq processed_files'
    /\ Cardinality(processed_files' \ processed_files) <= 1
    /\ pbar_n' - pbar_n = Cardinality(processed_files' \ processed_files)
    /\ \A id \in ResultIds :
          Len(WritesOf(id))' # Len(WritesOf(id)) =>
              /\ id \notin processed_files
              /\ id \in processed_files'

\* C8, every state: at most one write was made for each custom id
C8_AtMostOneWrite ==
    \A id \in ResultIds : Len(WritesOf(id)) <= 1

\* C8: at most one write and one progress increment per custom id, and an id
\* enters the processed set at most once
C8_ConsumedOncePerCustomId ==
    [][C8_ProcessedStep]_vars /\ []C8_AtMostOneWrite

\* the stream yields two succeeded results for the same custom id
C8_Witness ==
    /\ Len(results) = 2
    /\ results[1].custom_id = results[2].custom_id
    /\ results[1].type = "succeeded"
    /\ results[2].type = "succeeded"
    /\ results[1].text # results[2].text
    /\ pbar_n = 1
    /\ Len(WritesOf(results[1].custom_id)) = 1

(***************************************************************************)
(* C9, as stated. A service error raised by batches.create or by a status  *)
(* poll ends the run, is logged, and leaves process_files as an exception. *)
(***************************************************************************)
SubmitError == \E i \in DOMAIN trace : IsCall(trace[i], "create", "error")
PollError == \E i \in DOMAIN trace : IsCall(trace[i], "retrieve", "error")

\* C9 as stated: after a service error of create or retrieve the run is over,
\* the error is logged and process_files has raised
C9_ServiceErrorSurfaces ==
    (SubmitError \/ PollError) =>
        /\ pc = "done"
        /\ errlog # <<>>
        /\ pf_exit = "raised"

(***************************************************************************)
(* C9, amended. A service error raised by batches.create or by a status    *)
(* poll ends the run at once and is logged; the error of a poll leaves     *)
(* process_batch_results as an exception (logged there and again by        *)
(* process_files), but process_files catches every exception, logs it and  *)
(* returns normally: nothing surfaces to the caller of process_files.      *)
(***************************************************************************)
C9_ServiceErrorLoggedAndSwallowed ==
    /\ SubmitError =>
          /\ pc = "done"
          /\ Last(trace) = [op |-> "create", outcome |-> "error"]
          /\ Last(errlog) = "Error in batch processing: create failed"
          /\ pbr_exit = "not called"
          /\ pf_exit = "returned"
    /\ PollError =>
          /\ pc = "done"
          /\ Last(trace) = [op |-> "retrieve", outcome |-> "error"]
          /\ Len(errlog) >= 2
          /\ errlog[Len(errlog) - 1] = "Error in batch processing: retrieve failed"
          /\ Last(errlog) = "Error in batch processing: retrieve failed"
          /\ pbr_exit = "raised"
          /\ pf_exit = "returned"

\* a poll raises after an "in_progress" poll and a sleep
C9_Witness ==
    /\ PollError
    /\ Len(Polls) = 2
    /\ pc = "done"

(***************************************************************************)
(* C10. When submission, a poll, the fetch of the results or the handling  *)
(* of a result raises, the run is over in that very step: the step writes  *)
(* and removes no output file, and afterwards no poll, fetch, result or    *)
(* write happens, so the files written before stay as they are.            *)
(***************************************************************************)
Abandoned == pbr_exit = "raised" \/ SubmitError

\* C10, every step: the step in which an exception is handled ends the run and
\* leaves the output files alone; after it nothing is polled, fetched or written
C10_AbandonStep ==
    /\ Abandoned' =>
          /\ pc' = "done"
          /\ optimized' = optimized
    /\ Abandoned => UNCHANGED <<trace, results, optimized, processed_files>>

\* C10: after an exception there is no retry and no rollback
C10_NoRetryNoRollback == [][C10_AbandonStep]_vars

\* a result raises after an output file was written
C10_Witness ==
    /\ pbr_exit = "raised"
    /\ pc = "done"
    /\ optimized # <<>>

(***************************************************************************)
(* C11. After prepare_batch_requests the custom ids of the requests are    *)
(* pairwise distinct, the keys of custom_id_to_filename are exactly those  *)
(* ids, every id maps to the filename whose content its request carries,   *)
(* and the map is not modified again during the run.                       *)
(***************************************************************************)
RequestIds == {requests[n].custom_id : n \in DOMAIN requests}

\* C11, every state after prepare_batch_requests: distinct ids, the keys of the
\* map are the ids of the requests, each id maps to the file of its request
C11_MapMatchesRequests ==
    pc # "start" =>
        /\ \A m, n \in DOMAIN requests :
              requests[m].custom_id = requests[n].custom_id => m = n
        /\ DOMAIN custom_id_to_filename = RequestIds
        /\ \A n \in DOMAIN requests :
              LET filename == custom_id_to_filename[requests[n].custom_id]
              IN /\ filename \in Range(files_to_process)
                 /\ requests[n].text =
                        "Modify the given text for voice synthesis:\n\n"
                            \o disk[filename]

\* C11, every step after prepare_batch_requests leaves the map as it is
C11_MapFrozenStep ==
    pc # "start" => custom_id_to_filename' = custom_id_to_filename

\* C11: the map matches the requests and is never modified after it is built
C11_MapMatchesRequestsAndIsFrozen ==
    []C11_MapMatchesRequests /\ [][C11_MapFrozenStep]_vars

\* two requests of two different files, at the end of a run that wrote a file
C11_Witness ==
    /\ pc = "done"
    /\ Len(requests) = 2
    /\ custom_id_to_filename["req_1"] # custom_id_to_filename["req_2"]
    /\ optimized # <<>>

(***************************************************************************)
(* C12. The results are fetched at most once in a run, and only right      *)
(* after a poll that observed "ended"; after that single pass the poll     *)
(* loop is left: no further poll, sleep or fetch, also when some submitted *)
(* custom id did not appear among the results.                             *)
(***************************************************************************)
FetchCalls == {i \in DOMAIN trace : trace[i].op = "results"}

\* C12: at most one fetch, right after an "ended" poll, followed by writes only
C12_SinglePassThenExit ==
    /\ Cardinality(FetchCalls) <= 1
    /\ \A i \in FetchCalls :
          /\ i > 1
          /\ IsCall(trace[i - 1], "retrieve", Ended)
          /\ \A j \in DOMAIN trace : j > i => trace[j].op = "write"
    /\ FetchCalls # {} => pc \in {"iter", "done"}
    /\ FetchCalls = {} => results = <<>>

\* the run returned after a pass in which a submitted id did not appear
C12_Witness ==
    /\ pc = "done"
    /\ pbr_exit = "returned"
    /\ Fetched
    /\ results # <<>>
    /\ \E id \in Issued : ~HasResult(id) /\ id \notin processed_files

(***************************************************************************)
(* C13. The poll loop never busy-waits: whatever statuses the polls        *)
(* report, "canceling" included, a sleep lies between any two consecutive  *)
(* polls.                                                                  *)
(***************************************************************************)
\* C13: no poll is directly followed by another poll
C13_SleepBetweenPolls ==
    \A i \in DOMAIN trace :
        (i < Len(trace) /\ trace[i].op = "retrieve")
            => trace[i + 1].op # "retrieve"

(***************************************************************************)
(* C14. A "succeeded" result whose custom id has no entry in               *)
(* custom_id_to_filename is fatal to that result only: no file is written  *)
(* for it and the results after it are still processed.                    *)
(***************************************************************************)
\* a "succeeded" result that is looked up (line 108) and has no entry
Unmapped(r) ==
    /\ r.type = "succeeded"
    /\ r.custom_id \notin Issued
    /\ r.custom_id \notin processed_files

\* C14: the pass is not abandoned at a "succeeded" result without an entry
C14_MissingMappingFatalToResultOnly ==
    (results # <<>> /\ Unmapped(Last(results)))
        => /\ pbr_exit # "raised"
           /\ pc = "iter"

(***************************************************************************)
(* C15. An output file exists only for a file that is included in the      *)
(* batch and whose custom id has been seen with outcome "succeeded" among  *)
(* the fetched results; a listed file that was excluded from the batch     *)
(* never gets an output file.                                              *)
(***************************************************************************)
\* the list positions whose file is excluded from the batch (line 61)
ExcludedPositions ==
    {i \in DOMAIN files_to_process :
        read_file_content(disk, files_to_process[i]) = ""}

SucceededSeen(id) ==
    \E k \in DOMAIN results :
        results[k].custom_id = id /\ results[k].type = "succeeded"

\* C15: every output file belongs to an included file with a succeeded result,
\* and no excluded file has one
C15_OutputOnlyForIncludedSucceeded ==
    /\ \A path \in DOMAIN optimized :
          \E i \in DOMAIN files_to_process \ ExcludedPositions :
              /\ OptimizedPath(files_to_process[i]) = path
              /\ CustomId(i) \in RequestIds
              /\ SucceededSeen(CustomId(i))
    /\ \A i \in ExcludedPositions :
          OptimizedPath(files_to_process[i]) \notin DOMAIN optimized

\* an output file was written while the id of an excluded file came back as
\* "succeeded" too
C15_Witness ==
    /\ optimized # <<>>
    /\ \E i \in ExcludedPositions : SucceededSeen(CustomId(i))

(***************************************************************************)
(* C16. A result whose outcome is none of "succeeded", "errored",          *)
(* "expired" (for instance "canceled") is not written, not marked          *)
(* processed and does not advance the progress count; the pass goes on,    *)
(* and the run still ends normally after the pass, with that custom id     *)
(* left unprocessed.                                                       *)
(***************************************************************************)
Unhandled(r) == r.type \notin {"succeeded", "errored", "expired"}

\* C16, the step that reads an unhandled result changes nothing but the stream
C16_UnhandledStep ==
    (Len(results') = Len(results) + 1 /\ Unhandled(Last(results')))
        => /\ UNCHANGED <<optimized, processed_files, pbar_n, trace, errlog>>
           /\ pc' = "iter"
           /\ pbr_exit' = "running"

\* C16, a custom id that came back with unhandled outcomes only is never in
\* processed_files, and a pass whose last result is unhandled returns normally
C16_UnhandledLeftUnprocessed ==
    /\ \A id \in ResultIds :
          (\A k \in DOMAIN results :
               results[k].custom_id = id => Unhandled(results[k]))
              => id \notin processed_files
    /\ (pc = "done" /\ results # <<>> /\ Unhandled(Last(results)))
          => pbr_exit = "returned" /\ pf_exit = "returned"

\* C16: unhandled outcomes are ignored and do not stop the pass or the run
C16_UnhandledOutcomeIgnored ==
    [][C16_UnhandledStep]_vars /\ []C16_UnhandledLeftUnprocessed

\* a "canceled" result for a submitted id, then a handled one; the run returned
C16_Witness ==
    /\ pc = "done"
    /\ pbr_exit = "returned"
    /\ Len(results) = 2
    /\ results[1].type = "canceled"
    /\ results[1].custom_id \in Issued
    /\ results[1].custom_id \notin processed_files
    /\ processed_files # {}

(***************************************************************************)
(* C17. A failure while writing the output file of a "succeeded" result    *)
(* is swallowed: the custom id is still marked processed and counted,      *)
(* although no output file was produced; the remaining results are still   *)
(* processed and the run ends without reporting an error to its caller.    *)
(***************************************************************************)
FailedWrite(e) == e.op = "write" /\ e.outcome = "failed"

\* C17, the step in which a write fails: no file, the id is marked and counted,
\* the error is logged, the pass goes on
C17_FailedWriteStep ==
    (Len(trace') = Len(trace) + 1 /\ FailedWrite(Last(trace')))
        => LET e == Last(trace')
           IN /\ optimized' = optimized
              /\ e.custom_id \notin processed_files
              /\ processed_files' = processed_files \cup {e.custom_id}
              /\ pbar_n' = pbar_n + 1
              /\ errlog' = Append(errlog, "Error writing to " \o e.path)
              /\ pc' = "iter"
              /\ pbr_exit' = "running"

\* C17, a run whose last result is the one whose write failed returns normally
C17_FailedWriteRunReturns ==
    (pc = "done" /\ trace # <<>> /\ FailedWrite(Last(trace))
        /\ Last(results).custom_id = Last(trace).custom_id)
        => pbr_exit = "returned" /\ pf_exit = "returned"

OnlyIssuedResults ==
    \A k \in DOMAIN results : results[k].custom_id \in Issued

\* C18: count = |processed_files|; with results for issued ids only, the count
\* is at most the number of requests and equals the total only if no file of
\* the list was excluded
C18_ProgressCountsProcessed ==
    /\ pbar_n = Cardinality(processed_files)
    /\ pbar_total = Len(files_to_process)
    /\ OnlyIssuedResults =>
          /\ pbar_n <= Len(requests)
          /\ pbar_n = pbar_total => ExcludedPositions = {}

\* a file was excluded, every request came back and was counted, and the run
\* returned with the count below the total
C18_Witness ==
    /\ pc = "done"
    /\ pbr_exit = "returned"
    /\ ExcludedPositions # {}
    /\ OnlyIssuedResults
    /\ requests # <<>>
    /\ pbar_n = Len(requests)
    /\ pbar_n < pbar_total

====
